---- MODULE Spec2Model ----
(***************************************************************************)
(* Model of the capture-workflow service worker (ext/sw.js).               *)
(*                                                                         *)
(* The worker is single threaded: a message handler or the continuation    *)
(* of an awaited operation runs to its next await without interleaving.    *)
(* Every action below is one such run-to-completion section.  An async     *)
(* function invocation that is suspended at an await is a "task": a record *)
(* holding its position (pc) and its locals.                               *)
(***************************************************************************)
EXTENDS Integers, Sequences, FiniteSets, Bags, TLC

(* ------------------------------ bounds --------------------------------- *)
\* number of async invocations that may be suspended at the same time
MaxTasks == 2
\* number of start-workflow signals that may be accepted in one behaviour
MaxRuns == 2
\* longest job queue the remote service returns
MaxJobs == 2
\* a tab acknowledges a delivery after at most this many lost attempts
MaxLost == 1
\* the same four bounds of the small environment (SpecSmall)
SmallTasks == 1
SmallRuns == 1
SmallJobs == 1
SmallLost == 1
\* the end-to-end scenario (SpecScenario): suspended invocations, queue length
ScenTasks == 2
ScenJobs == 2
\* largest attempts argument of a delivery on its own (SpecDeliver), beside
\* the default
MaxAttempts == 3
\* largest frame side of the crop runs
CropMax == 6

(* -------------------------- program constants -------------------------- *)
\* sendMessageWithRetry(tabId, message, attempts = 10)
DefaultAttempts == 10
\* cropDataUrl: if (sw < 5 || sh < 5) throw
MinCrop == 5

(* ------------------------------ values --------------------------------- *)
\* JavaScript null and undefined are different values under === and !==
Null == "null"
Undef == "undefined"
Tabs == {"tab1", "tab2"}
\* sender.tab?.id of an incoming message: a tab id, or undefined
Senders == Tabs \cup {Undef}

\* a parsed URL (new URL(url)); valid = FALSE when the constructor throws
Url(protocol, origin, pathname) ==
  [valid |-> TRUE, protocol |-> protocol, origin |-> origin, pathname |-> pathname]
BadUrl == [valid |-> FALSE, protocol |-> "", origin |-> "", pathname |-> <<>>]

UrlLocal == Url("http:", "http://localhost:5177", <<"page">>)
UrlHttps == Url("https:", "https://example.org", <<"doc">>)
UrlFtp == Url("ftp:", "ftp://example.org", <<"file">>)

\* ALLOW_LIST: "http://localhost:5177/" parses, "<all_urls>" does not
ALLOW_LIST ==
  << [raw |-> "http://localhost:5177/", url |-> Url("http:", "http://localhost:5177", <<>>)],
     [raw |-> "<all_urls>", url |-> BadUrl] >>

\* String.prototype.startsWith on path segments
StartsWith(s, p) == Len(p) <= Len(s) /\ SubSeq(s, 1, Len(p)) = p

isAllowedEntry(urlObj, allowed) ==
  IF ~allowed.url.valid THEN FALSE
  ELSE IF urlObj.origin # allowed.url.origin THEN FALSE
  ELSE StartsWith(urlObj.pathname, allowed.url.pathname)

isAllowed(url) ==
  IF ~url.valid THEN FALSE
  ELSE IF url.protocol # "http:" /\ url.protocol # "https:" THEN FALSE
  ELSE IF \E n \in 1..Len(ALLOW_LIST) : ALLOW_LIST[n].raw = "<all_urls>" THEN TRUE
  ELSE \E n \in 1..Len(ALLOW_LIST) : isAllowedEntry(url, ALLOW_LIST[n])

(* ------------------------------- jobs ---------------------------------- *)
Job(id, url) == [id |-> id, url |-> url]
\* getJobAt's "absent" result
Absent == [id |-> 0, url |-> BadUrl]

GoodJob(n) == Job(n, IF n % 2 = 1 THEN UrlLocal ELSE UrlHttps)
GoodQueue(n) == [m \in 1..n |-> GoodJob(m)]
\* a queue whose last job has a URL the allow policy rejects
RejQueue(n) == [m \in 1..n |-> IF m = n THEN Job(n, UrlFtp) ELSE GoodJob(m)]
Queues(maxJobs) ==
  {GoodQueue(n) : n \in 0..maxJobs} \cup {RejQueue(n) : n \in 1..maxJobs}

\* the payload of GET /jobs: a bare array, or an envelope around it
Bare(q) == [shape |-> "array", items |-> q]
Enveloped(q) == [shape |-> "envelope", body |-> [jobs |-> q]]
RawResponses(maxJobs) ==
  {Bare(q) : q \in Queues(maxJobs)} \cup {Enveloped(q) : q \in Queues(maxJobs)}

normalizeJobsResponse(raw) ==
  IF raw.shape = "array" THEN raw.items ELSE raw.body.jobs

\* index is 0-based in the program, sequences are 1-based here
getJobAt(js, ix) == IF ix >= 0 /\ ix < Len(js) THEN js[ix + 1] ELSE Absent

(* ----------------------------- cropping -------------------------------- *)
Max(a, b) == IF a >= b THEN a ELSE b
Min(a, b) == IF a <= b THEN a ELSE b

clamp(v, lo, hi) == Max(lo, Min(hi, v))

\* the region cropDataUrl draws, before its minimum-size test
cropRegion(img, rect) ==
  LET sx == clamp(rect.x, 0, img.width - 1)
      sy == clamp(rect.y, 0, img.height - 1)
  IN  [sx |-> sx, sy |-> sy,
       sw |-> clamp(rect.w, 1, img.width - sx),
       sh |-> clamp(rect.h, 1, img.height - sy)]

\* the minimum-size test of line 292 with the height test left out
cropTooSmallWidthOnly(img, rect) ==
  cropRegion(img, rect).sw < MinCrop

\* the minimum-size test of lines 292-294
cropTooSmall(img, rect) ==
  cropRegion(img, rect).sw < MinCrop \/ cropRegion(img, rect).sh < MinCrop

Rect(x, y, w, h) == [x |-> x, y |-> y, w |-> w, h |-> h]
NoRect == Rect(0, 0, 0, 0)
\* no canvas drawn yet
NoRegion == [sx |-> 0, sy |-> 0, sw |-> 0, sh |-> 0]
\* the selection the UI reports in the workflow runs
Rects == {Rect(1, 1, 6, 6)}
\* decoded frames: one that holds the selection, one too small for it
Frames == {[width |-> 10, height |-> 10], [width |-> 4, height |-> 4]}

(* ------------------------------- state --------------------------------- *)
VARIABLES
  status,       \* state.status
  jobs,         \* state.jobs
  index,        \* state.index
  tabId,        \* state.tabId (activeTabId)
  isUiVisible,  \* isUiVisible
  tasks,        \* the suspended async invocations (a bag of task records)
  runId,        \* history: number of start-workflow signals accepted
  jobsRun,      \* history: the run whose fetch produced state.jobs (0: none)
  cancelled,    \* history: a cancel was accepted since the last accepted start
  hist,         \* history: commands issued for the jobs of the current run
  out           \* the status updates (notifyState) of the section that ran last

state == <<status, jobs, index, tabId>>
vars == <<status, jobs, index, tabId, isUiVisible, tasks, runId, jobsRun, cancelled, hist, out>>

Statuses == {"idle", "fetching", "navigating", "awaiting_selection", "uploading"}

(* human-readable texts of the program, by role *)
TextDone == "done"                    \* "Готово"
TextLoading == "loading"              \* "Загрузка списка..."
TextSelect == "select"                \* "Выберите область и нажмите Сохранить"
ErrEmptyQueue == "empty queue"        \* "Нет URL для обработки"
ErrUrlNotAllowed == "url not allowed" \* `URL не разрешен: ${job.url}`
ErrNoJob == "no current job"          \* "Текущее задание не найдено"
ErrGetJobs == "GET /jobs failed"
ErrUpload == "POST /upload failed"
ErrNavTimeout == "Navigation timeout"
ErrCropTooSmall == "Cropped dimensions too small"
ErrCapture == "capture failed"        \* captureVisibleTab rejects
ErrDecode == "decode failed"          \* loadImage / createImageBitmap rejects
ErrEncode == "encode failed"          \* convertToBlob rejects
ErrInvocation == "invalid tab id"     \* chrome.tabs.sendMessage(null, ...) throws

Message(type, stateName, message) ==
  [type |-> type, state |-> stateName, message |-> message]
NoMsg == Message("", "", "")

\* a fire-and-forget UI_STATE message to a tab.  Every other call into the
\* browser (send with callback, navigate, capture, fetch, upload) leaves its
\* task suspended at the pc of that name, so the tasks show it.
Notice(to, stateName, message) == [to |-> to, state |-> stateName, message |-> message]

\* kind: the async function; pc: the await it is suspended at; tabId, job,
\* rect, i, attempts, to, msg, navTab, left: its parameters and locals; cont: the
\* function that awaits the delivery in progress.  History: run (runId when
\* it was invoked), jrun and pos (run and position of the job it works on),
\* idle (invoked by a signal received while status was idle).
NoTask ==
  [kind |-> "none", pc |-> "done", tabId |-> Null, to |-> Null, msg |-> NoMsg,
   i |-> 0, attempts |-> 0, cont |-> "none", job |-> Absent, rect |-> NoRect,
   region |-> NoRegion, navTab |-> Null, left |-> <<>>, run |-> 0, jrun |-> 0, pos |-> 0, idle |-> FALSE]

NewTask(kind, tab) ==
  [NoTask EXCEPT !.kind = kind, !.pc = "start", !.tabId = tab, !.run = runId,
                 !.jrun = jobsRun, !.pos = index, !.idle = (status = "idle")]

\* The context an atomic section works on: the state fields, the running
\* task, the history and the status updates sent so far.
Ctx(t) ==
  [status |-> status, jobs |-> jobs, index |-> index, tabId |-> tabId, t |-> t,
   jobsRun |-> jobsRun, hist |-> hist, out |-> {}]

\* record a command for the job at pos of the current run's queue; a repeated
\* one is recorded as kind2.  Commands for jobs of earlier runs are not kept.
Again(kind) ==
  CASE kind = "nav" -> "nav2"
    [] kind = "capture" -> "capture2"
    [] kind = "upload" -> "upload2"
    [] kind = "uploaded" -> "uploaded2"
Record(c, kind, run, pos) ==
  IF run # runId THEN c
  ELSE [c EXCEPT !.hist = @ \cup {IF <<kind, pos>> \in @ THEN <<Again(kind), pos>>
                                  ELSE <<kind, pos>>}]

Finish(c) == [c EXCEPT !.t = NoTask]

(* ------------------------- messaging (sw.js 170-208) ------------------- *)
\* fire-and-forget status update; the callback only reads lastError
notifyState(c, to, stateName, message) ==
  IF to = Null \/ to = Undef THEN c
  ELSE [c EXCEPT !.out = @ \cup {Notice(to, stateName, message)}]

\* resetState after its delivery returned (lines 143-145)
resetStateResume(c) ==
  Finish([notifyState(c, c.tabId, "idle", c.t.msg.message) EXCEPT !.tabId = Null])

\* reportError's last four assignments (lines 155-158)
reportErrorAssign(c) ==
  [c EXCEPT !.status = "idle", !.jobs = <<>>, !.index = 0, !.tabId = Null, !.jobsRun = 0]

\* reportError after its delivery returned (lines 153-158)
reportErrorResume(c) ==
  Finish(reportErrorAssign(notifyState(c, c.t.to, "idle", c.t.msg.message)))

\* processCurrentJob after its delivery returned (line 114)
processCurrentJobResume(c) ==
  Finish(notifyState(c, c.tabId, "selecting", TextSelect))

\* syncUiState after its delivery returned (line 164)
syncUiStateResume(c) ==
  Finish(notifyState(c, c.t.tabId, "selecting", TextSelect))

\* what sendMessageWithRetry returned to a caller that keeps the result
Returned(success, attempts) == [returned |-> success, attempts |-> attempts]

\* the caller's code after "await sendMessageWithRetry(...)"; no caller in
\* sw.js reads the result of the delivery, a "caller" outside of it does
afterDelivery(c, success) ==
  CASE c.t.cont = "resetState" -> resetStateResume(c)
    [] c.t.cont = "reportError" -> reportErrorResume(c)
    [] c.t.cont = "processCurrentJob" -> processCurrentJobResume(c)
    [] c.t.cont = "syncUiState" -> syncUiStateResume(c)
    [] c.t.cont = "caller" -> Finish([c EXCEPT !.out = {Returned(success, c.t.attempts)}])

\* one chrome.tabs.sendMessage with a callback; the task waits for it
sendMessageOnce(c, to, msg) ==
  [c EXCEPT !.t.pc = "send", !.t.to = to, !.t.msg = msg]

\* the loop with one attempt more
retryLoopOneMore(c) ==
  IF c.t.i <= c.t.attempts THEN sendMessageOnce(c, c.t.to, c.t.msg)
  ELSE afterDelivery(c, FALSE)

\* the loop head of sendMessageWithRetry: i < attempts ?
retryLoop(c) ==
  IF c.t.i < c.t.attempts THEN sendMessageOnce(c, c.t.to, c.t.msg)
  ELSE afterDelivery(c, FALSE)

\* the loop body after "await sendMessageOnce" (lines 181-185)
sendMessageOnceResume(c, ack) ==
  IF ack THEN afterDelivery(c, TRUE) ELSE [c EXCEPT !.t.pc = "delay"]

\* after "await delay(200)": i += 1 and the loop test
delayResume(c) == retryLoop([c EXCEPT !.t.i = @ + 1])

sendMessageWithRetry(c, to, msg, attempts, cont) ==
  retryLoop([c EXCEPT !.t.i = 0, !.t.to = to, !.t.msg = msg, !.t.cont = cont,
                      !.t.attempts = attempts])

(* ----------------------- reset and error (136-159) --------------------- *)
resetState(c, message, notify) ==
  LET c1 == [c EXCEPT !.status = "idle", !.jobs = <<>>, !.index = 0, !.jobsRun = 0]
  IN  IF notify /\ c1.tabId # Null /\ c1.tabId # Undef
        THEN sendMessageWithRetry(c1, c1.tabId, Message("RESET_SELECTION", "", message),
                                  DefaultAttempts, "resetState")
        ELSE Finish([c1 EXCEPT !.tabId = Null])

reportError(c, error, tab) ==
  IF tab # Null /\ tab # Undef
    THEN sendMessageWithRetry(c, tab, Message("RESET_SELECTION", "", error),
                              DefaultAttempts, "reportError")
    ELSE Finish(reportErrorAssign(c))

\* the catch clause of the async function the task runs: startWorkflow passes
\* its own tabId parameter, handleSave reads state.tabId at that moment
catch(c, error) ==
  IF c.t.kind = "startWorkflow" THEN reportError(c, error, c.t.tabId)
  ELSE reportError(c, error, c.tabId)

(* --------------------- the per-job step (100-115) ---------------------- *)
\* navigate(): listener added, timeout armed, chrome.tabs.update issued
navigate(c, tab, url) ==
  [Record(c, "nav", c.jobsRun, c.index) EXCEPT !.t.pc = "navigate", !.t.navTab = tab]

processCurrentJob(c) ==
  LET job == getJobAt(c.jobs, c.index)
  IN  IF job = Absent THEN resetState(c, TextDone, TRUE)
      ELSE IF ~isAllowed(job.url) THEN catch(c, ErrUrlNotAllowed)
      ELSE navigate(c, c.tabId, job.url)

\* lines 112-113, after navigate resolved.  With state.tabId null the call
\* chrome.tabs.sendMessage(null, ...) either throws (invalid invocation) or
\* reports lastError; throws says which.
afterNavigate(c, throws) ==
  LET c1 == [c EXCEPT !.status = "awaiting_selection"]
  IN  IF c1.tabId = Null /\ throws THEN catch(c1, ErrInvocation)
      ELSE sendMessageWithRetry(c1, c1.tabId, Message("START_SELECT", "", ""),
                                DefaultAttempts, "processCurrentJob")

(* ----------------------- the run steps (80-134) ------------------------ *)
\* startWorkflow up to "await apiGetJobs()" (lines 81-88)
startWorkflow(c, tab) ==
  LET c1 == [c EXCEPT !.status = "fetching", !.tabId = tab, !.index = 0, !.jobs = <<>>,
                      !.jobsRun = 0]
  IN  [notifyState(c1, tab, "idle", TextLoading) EXCEPT !.t.pc = "fetch"]

\* startWorkflow after apiGetJobs settled (lines 88-97, 240-244)
startWorkflowResume(c, ok, raw) ==
  IF ~ok THEN catch(c, ErrGetJobs)
  ELSE LET js == normalizeJobsResponse(raw)
       IN  IF Len(js) = 0 THEN catch(c, ErrEmptyQueue)
           ELSE processCurrentJob([c EXCEPT !.jobs = js, !.status = "navigating",
                                            !.jobsRun = c.t.run])

\* handleSave up to "await chrome.tabs.captureVisibleTab" (lines 118-125)
handleSave(c, rect) ==
  LET c1 == [c EXCEPT !.status = "uploading"]
      job == getJobAt(c1.jobs, c1.index)
  IN  IF job = Absent THEN catch(c1, ErrNoJob)
      ELSE [Record(c1, "capture", c.t.jrun, c.t.pos)
              EXCEPT !.t.pc = "capture", !.t.job = job, !.t.rect = rect]

\* after captureVisibleTab settled: cropDataUrl starts, loadImage awaits the decoder
handleSaveCaptured(c, ok) ==
  IF ~ok THEN catch(c, ErrCapture) ELSE [c EXCEPT !.t.pc = "decode"]

\* cropDataUrl after loadImage settled (lines 287-300): clamp, size test, the
\* canvas of the region drawn, encode
cropDataUrl(c, ok, img) ==
  IF ~ok THEN catch(c, ErrDecode)
  ELSE IF cropTooSmall(img, c.t.rect) THEN catch(c, ErrCropTooSmall)
  ELSE [c EXCEPT !.t.pc = "encode", !.t.region = cropRegion(img, c.t.rect)]

\* after convertToBlob settled: apiUpload posts the form (lines 246-253)
apiUpload(c, ok) ==
  IF ~ok THEN catch(c, ErrEncode)
  ELSE [Record(c, "upload", c.t.jrun, c.t.pos) EXCEPT !.t.pc = "upload"]

\* handleSaveUploaded without line 129 (state.index += 1)
handleSaveUploadedSameIndex(c, ok) ==
  IF ~ok THEN catch(c, ErrUpload)
  ELSE processCurrentJob(Record(c, "uploaded", c.t.jrun, c.t.pos))

\* handleSave after apiUpload settled (lines 127-133, 254)
handleSaveUploaded(c, ok) ==
  IF ~ok THEN catch(c, ErrUpload)
  ELSE processCurrentJob([Record(c, "uploaded", c.t.jrun, c.t.pos) EXCEPT !.index = @ + 1])

\* syncUiState without the test of line 162
syncUiStateAnyStatus(c, tab) ==
  sendMessageWithRetry(c, tab, Message("START_SELECT", "", ""), DefaultAttempts, "syncUiState")

\* syncUiState (lines 161-168)
syncUiState(c, tab) ==
  IF c.status = "awaiting_selection"
    THEN sendMessageWithRetry(c, tab, Message("START_SELECT", "", ""),
                              DefaultAttempts, "syncUiState")
    ELSE Finish(notifyState(c, tab, "idle", TextDone))

(* --------------------- UI visibility (59-78) --------------------------- *)
\* what chrome.tabs.query({}) may return: the tabs, one of them without an id
QueryResults == {<<>>, <<Undef, "tab1">>}

\* the for loop of broadcastUiVisibility: skip tabs without id, send to the
\* next one and wait; isUiVisible is read when the message is built
RECURSIVE broadcastLoop(_, _)
broadcastLoop(c, visible) ==
  IF c.t.left = <<>> THEN Finish(c)
  ELSE IF Head(c.t.left) = Undef
    THEN broadcastLoop([c EXCEPT !.t.left = Tail(@)], visible)
    ELSE [c EXCEPT !.t.pc = "toggle", !.t.to = Head(c.t.left), !.t.left = Tail(@),
                   !.t.msg = Message("TOGGLE_UI", IF visible THEN "visible" ELSE "hidden", "")]

(* ------------------------------ actions -------------------------------- *)
\* the bounds of an environment
Bounds(maxTasks, maxRuns, maxJobs, maxLost) ==
  [maxTasks |-> maxTasks, maxRuns |-> maxRuns, maxJobs |-> maxJobs, maxLost |-> maxLost]

Live == BagToSet(tasks)
One(t) == IF t = NoTask THEN EmptyBag ELSE SetToBag({t})
Room(b) == BagCardinality(tasks) < b.maxTasks

\* the section that task t0 ran (NoTask: a message handler) ended in context c
Apply(t0, c) ==
  /\ status' = c.status
  /\ jobs' = c.jobs
  /\ index' = c.index
  /\ tabId' = c.tabId
  /\ tasks' = (tasks (-) One(t0)) (+) One(c.t)
  /\ jobsRun' = c.jobsRun
  /\ hist' = c.hist
  /\ out' = c.out

\* a message the listener returns from without effect
Ignore ==
  /\ out' = {}
  /\ UNCHANGED <<status, jobs, index, tabId, isUiVisible, tasks, runId, jobsRun,
                 cancelled, hist>>

Init ==
  /\ status = "idle"
  /\ jobs = <<>>
  /\ index = 0
  /\ tabId = Null
  /\ isUiVisible = TRUE
  /\ tasks = EmptyBag
  /\ runId = 0
  /\ jobsRun = 0
  /\ cancelled = FALSE
  /\ hist = {}
  /\ out = {}

\* the listener's guards (lines 36-38, 43-44, 49, 55)
\* acceptsStart without line 36, acceptsSave without line 44
acceptsStartAnyStatus(s) == s # Undef /\ s # Null
acceptsStart(s) == status = "idle" /\ s # Undef /\ s # Null
acceptsSaveAnyTab(s) == status = "awaiting_selection"
acceptsSave(s) == status = "awaiting_selection" /\ s = tabId
acceptsCancel(s) == s = tabId
acceptsReady(s) == s # Undef /\ s # Null

\* onMessage, msg.type === "UI_START" (lines 35-40)
UiStart(s, b) ==
  IF acceptsStart(s)
    THEN /\ Room(b)
         /\ runId < b.maxRuns
         /\ runId' = runId + 1
         /\ cancelled' = FALSE
         /\ UNCHANGED isUiVisible
         /\ Apply(NoTask, startWorkflow(
                    [Ctx([NewTask("startWorkflow", s) EXCEPT !.run = runId + 1])
                       EXCEPT !.hist = {}], s))
    ELSE Ignore

\* onMessage, msg.type === "UI_SAVE" (lines 42-46)
UiSave(s, rect, b) ==
  IF acceptsSave(s)
    THEN /\ Room(b)
         /\ Apply(NoTask, handleSave(Ctx(NewTask("handleSave", s)), rect))
         /\ UNCHANGED <<isUiVisible, runId, cancelled>>
    ELSE Ignore

\* onMessage, msg.type === "UI_CANCEL" (lines 48-51)
UiCancel(s, b) ==
  IF acceptsCancel(s)
    THEN /\ Room(b)
         /\ cancelled' = TRUE
         /\ Apply(NoTask, resetState(Ctx(NewTask("resetState", s)), TextDone, TRUE))
         /\ UNCHANGED <<isUiVisible, runId>>
    ELSE Ignore

\* onMessage, msg.type === "UI_READY" (lines 53-57)
UiReady(s, b) ==
  IF acceptsReady(s)
    THEN /\ Room(b)
         /\ Apply(NoTask, syncUiState(Ctx(NewTask("syncUiState", s)), s))
         /\ UNCHANGED <<isUiVisible, runId, cancelled>>
    ELSE Ignore

\* onMessage, msg.type === "HIDE_UI" (lines 59-62): broadcastUiVisibility
\* starts and waits for chrome.tabs.query
HideUi(b) ==
  /\ Room(b)
  /\ isUiVisible' = FALSE
  /\ Apply(NoTask, [Ctx(NewTask("broadcastUiVisibility", Null)) EXCEPT !.t.pc = "query"])
  /\ UNCHANGED <<runId, cancelled>>

\* chrome.tabs.query settled (lines 66-67)
QueryDone(t, result) ==
  /\ t.pc = "query"
  /\ Apply(t, broadcastLoop([Ctx(t) EXCEPT !.t.left = result], isUiVisible))
  /\ UNCHANGED <<isUiVisible, runId, cancelled>>

\* the send to one tab settled; a rejection is swallowed (lines 69-76)
ToggleDone(t) ==
  /\ t.pc = "toggle"
  /\ Apply(t, broadcastLoop(Ctx(t), isUiVisible))
  /\ UNCHANGED <<isUiVisible, runId, cancelled>>

\* fetch of GET /jobs settled
FetchDone(t, ok, raw) ==
  /\ t.pc = "fetch"
  /\ Apply(t, startWorkflowResume(Ctx(t), ok, raw))
  /\ UNCHANGED <<isUiVisible, runId, cancelled>>

\* the number of tasks of the bag that tr maps to u
RECURSIVE CountTo(_, _, _)
CountTo(S, tr(_), u) ==
  IF S = {} THEN 0
  ELSE LET t == CHOOSE x \in S : TRUE
       IN  (IF tr(t) = u THEN CopiesIn(t, tasks) ELSE 0) + CountTo(S \ {t}, tr, u)

\* the listener without the test of line 270
listenerAnyTab(t, updatedTabId, info) ==
  IF t.pc = "navigate" /\ info = "complete" THEN [t EXCEPT !.pc = "settle"] ELSE t

\* the onUpdated listener of the navigate() that task t waits for (lines
\* 268-277).  It is attached and not settled exactly while pc = "navigate":
\* settling detaches it, clears the 60 s timer and arms the 250 ms one.
listener(t, updatedTabId, info) ==
  IF t.pc = "navigate" /\ updatedTabId = t.navTab /\ info = "complete"
    THEN [t EXCEPT !.pc = "settle"] ELSE t

\* chrome.tabs.onUpdated fires while a navigate() is pending, before or after
\* it settled: every attached listener is called
TabUpdated(tab, info) ==
  LET called(t) == listener(t, tab, info)
  IN  /\ \E t \in Live : t.pc \in {"navigate", "settle"}
      /\ tasks' = [u \in {called(t) : t \in Live} |-> CountTo(Live, called, u)]
      /\ out' = {}
      /\ UNCHANGED <<status, jobs, index, tabId, isUiVisible, runId, jobsRun, cancelled,
                     hist>>

\* the 60 s timer of navigate() fires first (lines 261-266)
NavTimeout(t) ==
  /\ t.pc = "navigate"
  /\ Apply(t, catch(Ctx(t), ErrNavTimeout))
  /\ UNCHANGED <<isUiVisible, runId, cancelled>>

\* the 250 ms settle timer resolves navigate() (line 275)
NavSettled(t, throws) ==
  /\ t.pc = "settle"
  /\ throws => tabId = Null
  /\ Apply(t, afterNavigate(Ctx(t), throws))
  /\ UNCHANGED <<isUiVisible, runId, cancelled>>

\* the callback of sendMessageOnce runs; ack = no lastError (lines 181-185)
SendDone(t, ack, b) ==
  /\ t.pc = "send"
  /\ ack => t.to \in Tabs
  /\ ~ack => t.to \notin Tabs \/ t.i < b.maxLost
  /\ Apply(t, sendMessageOnceResume(Ctx(t), ack))
  /\ UNCHANGED <<isUiVisible, runId, cancelled>>

\* delay(200) elapsed: i += 1 and the loop test (lines 180, 185)
DelayDone(t) ==
  /\ t.pc = "delay"
  /\ Apply(t, delayResume(Ctx(t)))
  /\ UNCHANGED <<isUiVisible, runId, cancelled>>

CaptureDone(t, ok) ==
  /\ t.pc = "capture"
  /\ Apply(t, handleSaveCaptured(Ctx(t), ok))
  /\ UNCHANGED <<isUiVisible, runId, cancelled>>

DecodeDone(t, ok, img) ==
  /\ t.pc = "decode"
  /\ Apply(t, cropDataUrl(Ctx(t), ok, img))
  /\ UNCHANGED <<isUiVisible, runId, cancelled>>

EncodeDone(t, ok) ==
  /\ t.pc = "encode"
  /\ Apply(t, apiUpload(Ctx(t), ok))
  /\ UNCHANGED <<isUiVisible, runId, cancelled>>

UploadDone(t, ok) ==
  /\ t.pc = "upload"
  /\ Apply(t, handleSaveUploaded(Ctx(t), ok))
  /\ UNCHANGED <<isUiVisible, runId, cancelled>>

(* --------------------------- specification ----------------------------- *)
\* the workflow: the four workflow signals and the completions of what the
\* run steps wait for, in an environment with bounds b
Workflow(b) ==
  \/ \E s \in Senders : UiStart(s, b)
  \/ \E s \in Senders, rect \in Rects : UiSave(s, rect, b)
  \/ \E s \in Senders : UiCancel(s, b)
  \/ \E s \in Senders : UiReady(s, b)
  \/ \E t \in Live, ok \in BOOLEAN, raw \in RawResponses(b.maxJobs) : FetchDone(t, ok, raw)
  \/ \E tab \in Tabs, info \in {"loading", "complete"} : TabUpdated(tab, info)
  \/ \E t \in Live : NavTimeout(t)
  \/ \E t \in Live, throws \in BOOLEAN : NavSettled(t, throws)
  \/ \E t \in Live, ack \in BOOLEAN : SendDone(t, ack, b)
  \/ \E t \in Live : DelayDone(t)
  \/ \E t \in Live, ok \in BOOLEAN : CaptureDone(t, ok)
  \/ \E t \in Live, ok \in BOOLEAN, img \in Frames : DecodeDone(t, ok, img)
  \/ \E t \in Live, ok \in BOOLEAN : EncodeDone(t, ok)
  \/ \E t \in Live, ok \in BOOLEAN : UploadDone(t, ok)

\* the hide-ui signal and its broadcast
Visibility(b) ==
  \/ HideUi(b)
  \/ \E t \in Live, result \in QueryResults : QueryDone(t, result)
  \/ \E t \in Live : ToggleDone(t)

B == Bounds(MaxTasks, MaxRuns, MaxJobs, MaxLost)

Next == Workflow(B) \/ Visibility(B)

Spec == Init /\ [][Next]_vars

\* the workflow alone, one run and one suspended invocation at a time
SmallB == Bounds(SmallTasks, SmallRuns, SmallJobs, SmallLost)

NextSmall == Workflow(SmallB)

SpecSmall == Init /\ [][NextSmall]_vars

\* the end-to-end scenario: one start from tab1, a queue of allowed jobs, every
\* stage succeeds, tab1 saves whenever it is asked to, nobody cancels; any
\* delivery attempt may fail
ScenB == Bounds(ScenTasks, MaxRuns, ScenJobs, DefaultAttempts)

ScenSignal ==
  \/ runId = 0 /\ UiStart("tab1", ScenB)
  \/ \E rect \in Rects : acceptsSave("tab1") /\ UiSave("tab1", rect, ScenB)

ScenStep ==
  \/ \E t \in Live, n \in 1..ScenJobs :
       FetchDone(t, TRUE, Bare(GoodQueue(n))) \/ FetchDone(t, TRUE, Enveloped(GoodQueue(n)))
  \/ \E info \in {"loading", "complete"} : TabUpdated("tab1", info)
  \/ \E t \in Live : NavSettled(t, FALSE)
  \/ \E t \in Live, ack \in BOOLEAN : SendDone(t, ack, ScenB)
  \/ \E t \in Live : DelayDone(t)
  \/ \E t \in Live : CaptureDone(t, TRUE)
  \/ \E t \in Live : DecodeDone(t, TRUE, [width |-> 10, height |-> 10])
  \/ \E t \in Live : EncodeDone(t, TRUE)
  \/ \E t \in Live : UploadDone(t, TRUE)

NextScenario == ScenSignal \/ ScenStep

\* the event loop runs every callback that is due, and the tab answers the
\* begin-selection state with its save
SpecScenario ==
  Init /\ [][NextScenario]_vars /\ WF_vars(ScenStep) /\ WF_vars(ScenSignal)

\* one sendMessageWithRetry call on its own: a caller that keeps the result
\* passes any attempts argument, the recipient acknowledges any attempt or
\* none.  hist notes what happened to attempt i: lost or acked, then waited.
Noted(c, what, i) == [c EXCEPT !.hist = @ \cup {<<what, i>>}]

InitDeliver ==
  \E n \in (0..MaxAttempts) \cup {DefaultAttempts}, tab \in Tabs,
     type \in {"START_SELECT", "RESET_SELECTION"} :
    LET c == sendMessageWithRetry(
               [status |-> "idle", jobs |-> <<>>, index |-> 0, tabId |-> Null,
                t |-> [NoTask EXCEPT !.kind = "caller", !.pc = "start", !.tabId = tab],
                jobsRun |-> 0, hist |-> {}, out |-> {}],
               tab, Message(type, "", ""), n, "caller")
    IN  /\ status = c.status /\ jobs = c.jobs /\ index = c.index /\ tabId = c.tabId
        /\ tasks = One(c.t) /\ jobsRun = c.jobsRun /\ hist = c.hist /\ out = c.out
        /\ isUiVisible = TRUE /\ runId = 0 /\ cancelled = FALSE

DeliverAttempt(t, ack) ==
  /\ t.pc = "send"
  /\ Apply(t, sendMessageOnceResume(
                Noted(Ctx(t), IF ack THEN "acked" ELSE "lost", t.i), ack))
  /\ UNCHANGED <<isUiVisible, runId, cancelled>>

DeliverWait(t) ==
  /\ t.pc = "delay"
  /\ Apply(t, delayResume(Noted(Ctx(t), "waited", t.i)))
  /\ UNCHANGED <<isUiVisible, runId, cancelled>>

NextDeliver ==
  \/ \E t \in Live, ack \in BOOLEAN : DeliverAttempt(t, ack)
  \/ \E t \in Live : DeliverWait(t)

\* every callback and timer that is due runs
SpecDeliver == InitDeliver /\ [][NextDeliver]_vars /\ WF_vars(NextDeliver)

(* ------------- one cropDataUrl call, any rectangle and frame ----------- *)
\* the coordinates a UI_SAVE may carry and the sizes a decoded frame may have
Coords == (0 - 1)..(CropMax + 1)
Sizes == 0..CropMax

\* a save for the first job of a queue of one was accepted with rectangle
\* rect, the capture succeeded and cropDataUrl awaits the decoder
InitCrop ==
  /\ runId = 1 /\ cancelled = FALSE /\ isUiVisible = TRUE
  /\ \E x \in Coords, y \in Coords, w \in Coords, h \in Coords :
       LET c0 == [status |-> "awaiting_selection", jobs |-> GoodQueue(1), index |-> 0,
                  tabId |-> "tab1",
                  t |-> [NoTask EXCEPT !.kind = "handleSave", !.pc = "start",
                                       !.tabId = "tab1", !.run = 1, !.jrun = 1],
                  jobsRun |-> 1, hist |-> {<<"nav", 0>>}, out |-> {}]
           c == handleSaveCaptured(handleSave(c0, Rect(x, y, w, h)), TRUE)
       IN  /\ status = c.status /\ jobs = c.jobs /\ index = c.index /\ tabId = c.tabId
           /\ tasks = One(c.t) /\ jobsRun = c.jobsRun /\ hist = c.hist /\ out = {}

\* the decoder settles with an image of some size; the history notes the size
CropDecoded(t, img) ==
  /\ t.pc = "decode"
  /\ Apply(t, cropDataUrl(Noted(Ctx(t), "decoded", img), TRUE, img))
  /\ UNCHANGED <<isUiVisible, runId, cancelled>>

NextCrop ==
  \/ \E t \in Live, width \in Sizes, height \in Sizes :
       CropDecoded(t, [width |-> width, height |-> height])
  \/ \E t \in Live : DecodeDone(t, FALSE, [width |-> 0, height |-> 0])

SpecCrop == InitCrop /\ [][NextCrop]_vars

(* ------------------------------ claims --------------------------------- *)
\* task t ran a section in this step (every section changes its task record)
Stepped(t) == CopiesIn(t, tasks') < CopiesIn(t, tasks)

IdleShape == status = "idle" /\ jobs = <<>> /\ index = 0 /\ tabId = Null

\* C1: index goes from i to i+1 only in the section that follows a successful
\* upload of the job at position i of the current run's queue, made by a
\* handler of the current run; hence a run that has navigated to position k
\* has uploaded every position below k.
C1_IndexAdvancesAfterUpload ==
  [][/\ index' = index + 1 =>
          \E t \in Live : /\ t.pc = "upload" /\ Stepped(t)
                          /\ t.run = runId /\ t.jrun = jobsRun /\ t.pos = index
                          /\ <<"uploaded", index>> \in hist'
     /\ \A k \in 1..MaxJobs :
          <<"nav", k>> \in hist' => \A j \in 0..(k - 1) : <<"uploaded", j>> \in hist'
    ]_vars

\* C2: within one run no job is captured or uploaded more than once.
C2_NoJobCapturedTwice ==
  \A pos \in 0..MaxJobs : <<"capture2", pos>> \notin hist /\ <<"upload2", pos>> \notin hist

\* C5: activeTabId is set if and only if status is not idle.
C5_TabSetIffNotIdle == (tabId # Null) <=> (status # "idle")

\* C7: a save, cancel, ready or hide signal received while status is idle
\* leaves status, jobs, index and activeTabId as they are, in the handler's own
\* section and in every later section of the invocation it started.
C7_IdleSignalsLeaveState ==
  [][/\ (/\ status = "idle"
         /\ \/ \E s \in Senders, rect \in Rects : UiSave(s, rect, B)
            \/ \E s \in Senders : UiCancel(s, B)
            \/ \E s \in Senders : UiReady(s, B)
            \/ HideUi(B)) => UNCHANGED state
     /\ \A t \in Live :
          (t.idle /\ t.kind # "startWorkflow" /\ Stepped(t)) => UNCHANGED state
    ]_vars

\* C8: from an accepted cancel until the next accepted start, status is idle,
\* jobs is empty and index is 0, activeTabId is absent once the cancel's
\* notification has finished, and no navigation or upload is begun.
C8_CancelIsFinal ==
  [][cancelled' =>
       /\ status' = "idle" /\ jobs' = <<>> /\ index' = 0
       /\ (\A u \in BagToSet(tasks') : u.kind # "resetState") => tabId' = Null
       /\ cancelled =>
            \A u \in BagToSet(tasks') : u.pc \in {"navigate", "upload"} => u \in Live
    ]_vars

\* a section of task t in which a stage of its run step fails
StageFails(t) ==
  \/ \E raw \in RawResponses(MaxJobs) : FetchDone(t, FALSE, raw)
  \/ \E raw \in RawResponses(MaxJobs) :
       /\ normalizeJobsResponse(raw) # <<>>
       /\ ~isAllowed(normalizeJobsResponse(raw)[1].url)
       /\ FetchDone(t, TRUE, raw)
  \/ NavTimeout(t)
  \/ CaptureDone(t, FALSE)
  \/ \E img \in Frames : DecodeDone(t, FALSE, img)
  \/ \E img \in Frames : cropTooSmall(img, t.rect) /\ DecodeDone(t, TRUE, img)
  \/ EncodeDone(t, FALSE)
  \/ UploadDone(t, FALSE)

\* C9: when a stage of a run step fails, a failure notice to the tab of that
\* run is attempted in the same section and index is not advanced.
C9_FailureIsReportedToRunTab ==
  [][\A t \in Live : StageFails(t) =>
       /\ index' = index
       /\ \E u \in BagToSet(tasks') :
            /\ u.kind = t.kind /\ u.run = t.run
            /\ u.cont = "reportError" /\ u.pc = "send" /\ u.i = 0
            /\ u.to = t.tabId /\ u.msg.type = "RESET_SELECTION"
    ]_vars

\* C10: while the current run is reporting that its fetched queue was empty,
\* status is neither navigating nor awaiting_selection, jobs is empty, index is
\* 0 and the run has issued no navigation, capture or upload.
C10_EmptyQueueRunDoesNothing ==
  \A t \in Live :
    (/\ t.kind = "startWorkflow" /\ t.run = runId
     /\ t.cont = "reportError" /\ t.msg.message = ErrEmptyQueue)
    => /\ status \notin {"navigating", "awaiting_selection"}
       /\ jobs = <<>> /\ index = 0
       /\ hist = {}

\* what a run over a queue of n jobs records when it handles each job once
FullHist(n) == {"nav", "capture", "upload", "uploaded"} \X (0..(n - 1))

\* the completion message is on its way to tab1 and the state is already reset
Completing ==
  /\ status = "idle" /\ jobs = <<>> /\ index = 0 /\ tabId = "tab1"
  /\ \E t \in Live : /\ t.cont = "resetState" /\ t.pc = "send" /\ t.i = 0
                     /\ t.to = "tab1"
                     /\ t.msg = Message("RESET_SELECTION", "", TextDone)

\* C3: in the scenario, a run over a fetched queue of n allowed jobs navigates
\* to, captures and uploads each job exactly once, navigates to position k only
\* after every position below k was uploaded, then starts delivering the
\* completion message to the tab with the state reset, and ends idle with jobs
\* empty, index 0 and no active tab.
C3_ScenarioRunsQueueInOrder ==
  /\ [](\A k \in 0..ScenJobs :
          /\ <<"nav", k>> \in hist => \A j \in 0..(k - 1) : <<"uploaded", j>> \in hist
          /\ \A kind \in {"nav", "capture", "upload", "uploaded"} :
               <<Again(kind), k>> \notin hist)
  /\ \A n \in 1..ScenJobs :
       (jobs = GoodQueue(n)) ~> (Completing /\ hist = FullHist(n))
  /\ Completing ~> (IdleShape /\ tasks = EmptyBag)

C3_Witness == IdleShape /\ runId = 1 /\ tasks = EmptyBag /\ hist = FullHist(ScenJobs)

\* C4: a start signal received while status is not idle, or from a sender
\* without a tab id, changes nothing and starts no fetch; a start accepted in
\* idle sets status fetching, index 0, jobs empty and activeTabId to the sender
\* in the handler's own section, with the fetch pending, so that the next start
\* is refused.
C4_StartGuard ==
  [][\A s \in Senders : UiStart(s, SmallB) =>
       IF status = "idle" /\ s \in Tabs
         THEN /\ status' = "fetching" /\ index' = 0 /\ jobs' = <<>> /\ tabId' = s
              /\ \E t \in BagToSet(tasks') : t.kind = "startWorkflow" /\ t.pc = "fetch"
              /\ \A s2 \in Senders : ~acceptsStart(s2)'
         ELSE UNCHANGED <<state, tasks, hist>> /\ out' = {}
    ]_vars

\* a fetch is pending and a signal has just been refused
C4_Witness ==
  /\ status = "fetching" /\ tabId = "tab1" /\ jobs = <<>> /\ index = 0
  /\ \E t \in Live : t.kind = "startWorkflow" /\ t.pc = "fetch"
  /\ out = {}

\* C6: a save or cancel signal from a sender other than activeTabId, and a save
\* signal received in a status other than awaiting_selection, changes neither
\* status, jobs, index nor activeTabId and starts no capture, upload,
\* navigation or message.
C6_WrongTabOrStatusIgnored ==
  [][\A s \in Senders :
       (\/ /\ s # tabId \/ status # "awaiting_selection"
           /\ \E rect \in Rects : UiSave(s, rect, SmallB)
        \/ /\ s # tabId
           /\ UiCancel(s, SmallB))
       => UNCHANGED <<state, tasks, hist>> /\ out' = {}
    ]_vars

\* the workflow waits for the selection of tab1, the begin-selection message
\* is delivered, and a signal has just been refused
C6_Witness ==
  /\ status = "awaiting_selection" /\ tabId = "tab1" /\ tasks = EmptyBag
  /\ out = {}

LostAndWaited(k) == {"lost", "waited"} \X (0..(k - 1))

\* C12: a delivery with attempts argument n ends, and it ends in one of two
\* ways: it returns false after exactly n attempts, all lost and each followed
\* by the wait; or it returns true right after attempt k <= n, the first one
\* acknowledged, the k-1 before it lost and each followed by the wait.  Until
\* then it has made no more than n attempts.
C12_DeliverIsBounded ==
  /\ [](\A t \in Live :
          /\ t.i < t.attempts
          /\ hist = LostAndWaited(t.i) \cup (IF t.pc = "delay" THEN {<<"lost", t.i>>} ELSE {}))
  /\ [](tasks = EmptyBag =>
          \E r \in out :
            /\ out = {r}
            /\ IF r.returned
                 THEN \E k \in 1..r.attempts :
                        hist = LostAndWaited(k - 1) \cup {<<"acked", k - 1>>}
                 ELSE hist = LostAndWaited(r.attempts))
  /\ <>(tasks = EmptyBag)

\* all of the default number of attempts were lost
C12_Witness ==
  /\ tasks = EmptyBag
  /\ out = {Returned(FALSE, DefaultAttempts)}
  /\ hist = LostAndWaited(DefaultAttempts)

\* task t is reporting the navigation timeout, or has reset the state
\* without a notice because no tab is active
TimedOut(t) ==
  \/ \E u \in BagToSet(tasks') :
       /\ u.kind = t.kind /\ u.run = t.run /\ u.cont = "reportError" /\ u.pc = "send"
       /\ u.msg = Message("RESET_SELECTION", "", ErrNavTimeout)
  \/ /\ tasks' = tasks (-) SetToBag({t})
     /\ status' = "idle" /\ jobs' = <<>> /\ index' = 0 /\ tabId' = Null

\* C13: a pending navigate() leaves its wait in exactly two ways: a
\* load-complete event of its own tab settles it, after which it resolves and
\* the caller goes on; or the timeout fires and the caller fails with the
\* navigation-timeout error.  Any other tab event
\* leaves it as it is, and so does every tab event once it has settled; a
\* settled navigate() only resolves.
C13_NavigateOneOutcome ==
  [][\A t \in Live :
       /\ (t.pc = "navigate" /\ Stepped(t)) =>
            \/ /\ t.navTab \in Tabs /\ TabUpdated(t.navTab, "complete")
               /\ [t EXCEPT !.pc = "settle"] \in BagToSet(tasks')
            \/ NavTimeout(t) /\ TimedOut(t)
       /\ (t.pc = "settle" /\ Stepped(t)) =>
            \E throws \in BOOLEAN : NavSettled(t, throws)
       /\ \A tab \in Tabs, info \in {"loading", "complete"} :
            (/\ t.pc \in {"navigate", "settle"}
             /\ t.pc = "settle" \/ tab # t.navTab \/ info # "complete"
             /\ TabUpdated(tab, info))
            => CopiesIn(t, tasks') >= CopiesIn(t, tasks)
    ]_vars

\* a navigation has settled on the load-complete event of its tab and is
\* about to resolve
C13_Witness ==
  \E t \in Live : t.pc = "settle" /\ t.navTab = "tab1" /\ status = "navigating" /\ out = {}

\* C14: a job whose URL the allow policy rejects is never navigated to and
\* never captured or uploaded: every navigation newly issued is for the job
\* at index and that job's URL is allowed, and every save in progress
\* (capture, crop, upload) works on a job whose URL is allowed.
C14_RejectedJobNeverProcessed ==
  [][/\ \A u \in BagToSet(tasks') :
          (u.pc = "navigate" /\ CopiesIn(u, tasks') > CopiesIn(u, tasks))
          => /\ getJobAt(jobs', index') # Absent
             /\ isAllowed(getJobAt(jobs', index').url)
     /\ \A u \in BagToSet(tasks') :
          u.pc \in {"capture", "decode", "encode", "upload"} => isAllowed(u.job.url)
    ]_vars

\* task t is a pending continuation of a run step: a fetch, a navigation
\* wait, a begin-selection delivery, a capture, a crop or an upload
RunStep(t) ==
  /\ t.kind \in {"startWorkflow", "handleSave"}
  /\ \/ t.pc \in {"fetch", "navigate", "settle", "capture", "decode", "encode", "upload"}
     \/ t.pc \in {"send", "delay"} /\ t.cont = "processCurrentJob"

\* C15: at most one workflow run exists: all pending run-step continuations
\* belong to the same start-workflow invocation, and that is the latest one.
C15_OneRunAtATime ==
  \A t \in Live : RunStep(t) => t.run = runId /\ (\A u \in Live : RunStep(u) => u.run = t.run)

\* C16: jobs changes only by being replaced wholesale: by the empty sequence
\* (start or reset), or, while it is empty and the latest run is still
\* fetching, by the queue that run's fetch returned.  A stored queue is
\* therefore never changed before its run ends.
C16_JobsFixedOnceFetched ==
  [][jobs' # jobs =>
       \/ jobs' = <<>>
       \/ /\ jobs = <<>> /\ status = "fetching"
          /\ \E t \in Live : t.pc = "fetch" /\ Stepped(t) /\ t.run = runId
    ]_vars

\* task t failed with the crop-too-small error and reports it
CropFailed(t) ==
  /\ t.cont = "reportError" /\ t.pc = "send"
  /\ t.msg = Message("RESET_SELECTION", "", ErrCropTooSmall)

\* C17: for every frame W x H (W, H >= 0) and every integer rectangle,
\* cropDataUrl either fails with the crop-too-small error or draws a region
\* with 0 <= sx, 0 <= sy, sw >= 5, sh >= 5, sx + sw <= W, sy + sh <= H, whose
\* values are the clamps of the rectangle; it fails exactly when a clamped
\* extent is below 5, and always when the origin is at or beyond the right or
\* bottom edge.
C17_CropClampsOrFails ==
  \A t \in Live, e \in hist :
    e[1] = "decoded" =>
      LET W == e[2].width
          H == e[2].height
          r == t.rect
          sx == clamp(r.x, 0, W - 1)
          sy == clamp(r.y, 0, H - 1)
          sw == clamp(r.w, 1, W - sx)
          sh == clamp(r.h, 1, H - sy)
          small == sw < 5 \/ sh < 5
      IN  /\ small <=> CropFailed(t)
          /\ (r.x >= W \/ r.y >= H) => CropFailed(t)
          /\ ~small =>
               /\ t.pc = "encode"
               /\ t.region = [sx |-> sx, sy |-> sy, sw |-> sw, sh |-> sh]
               /\ 0 <= t.region.sx /\ 0 <= t.region.sy
               /\ t.region.sw >= 5 /\ t.region.sh >= 5
               /\ t.region.sx + t.region.sw <= W
               /\ t.region.sy + t.region.sh <= H

\* a rectangle reaching over the right and bottom edge was cut to the frame
C17_Witness ==
  \E t \in Live :
    /\ t.pc = "encode" /\ t.rect = Rect(1, 1, CropMax + 1, CropMax + 1)
    /\ t.region = [sx |-> 1, sy |-> 1, sw |-> 5, sh |-> 5]
    /\ <<"decoded", [width |-> 6, height |-> 6]>> \in hist

\* C18: every change of status is paired, in the same run step, with a
\* message to the active tab (the one of the state before or after the step)
\* that tells the new state: a status update, or the delivery of
\* RESET_SELECTION or START_SELECT started in that step.
C18_StatusChangeIsNotified ==
  [][status' # status =>
       LET active == {tabId, tabId'} \ {Null, Undef}
       IN  \/ \E n \in out' : n.to \in active
           \/ \E u \in BagToSet(tasks') :
                /\ CopiesIn(u, tasks') > CopiesIn(u, tasks)
                /\ u.pc = "send" /\ u.i = 0 /\ u.to \in active
    ]_vars

\* C19: every attempt to deliver START_SELECT, first or retried, started by
\* the per-job step or by a ui-ready re-sync, is made while status is
\* awaiting_selection.
C19_BeginSelectionOnlyWhileAwaiting ==
  [][\A u \in BagToSet(tasks') :
       (/\ CopiesIn(u, tasks') > CopiesIn(u, tasks)
        /\ u.pc = "send" /\ u.msg.type = "START_SELECT")
       => status' = "awaiting_selection"
    ]_vars

\* C20: whenever status is navigating, awaiting_selection or uploading a
\* current job exists (jobs is not empty and 0 <= index < Len(jobs)), and in
\* awaiting_selection an active tab is set.
C20_BusyStatusHasCurrentJob ==
  /\ status \in {"navigating", "awaiting_selection", "uploading"}
       => jobs # <<>> /\ 0 <= index /\ index < Len(jobs)
  /\ status = "awaiting_selection" => tabId # Null /\ tabId # Undef

====
